---- MODULE Spec2Model ----
(***************************************************************************)
(* Model of qubesmgmt/app.py: the VMCollection cache (snapshot _vm_list,   *)
(* instance table _vm_objects) and the two qubesd_call transports          *)
(* (QubesLocal over a unix socket, QubesRemote over qrexec-client-vm).     *)
(*                                                                         *)
(* Byte strings and text strings are sequences of one-character strings,   *)
(* so that splitlines/split/decode/encode are computed, not assumed.       *)
(* Python dicts are insertion-ordered: a dict is a sequence of             *)
(* <<key, value>> pairs with distinct keys.                                *)
(***************************************************************************)
EXTENDS Integers, Sequences, FiniteSets, TLC

\* ------------------------------------------------------------------------
\* Bounds of the model
\* ------------------------------------------------------------------------
\* wrapper instances that can be created in one behaviour
MaxObjects == 3
\* lines of a listing payload
MaxLines == 2
\* file descriptors the process may hold (RLIMIT_NOFILE of the model)
MaxOpen == 2

\* ------------------------------------------------------------------------
\* Characters and strings
\* ------------------------------------------------------------------------
NL == "\n"
SP == " "
EQ == "="
\* the null byte that ends a request field
NUL == "\\0"
\* a byte >= 0x80: not ASCII
HighByte == "\\x80"

EmptyStr == << >>
s_a == <<"a">>
s_b == <<"b">>
s_k == <<"k">>
s_v == <<"v">>
s_vw == <<"v", "=", "w">>
s_class == <<"c", "l", "a", "s", "s">>
s_AppVM == <<"A", "p", "p", "V", "M">>
s_DispVM == <<"D", "i", "s", "p", "V", "M">>
s_dom0 == <<"d", "o", "m", "0">>
s_List == <<"m", "g", "m", "t", ".", "v", "m", ".", "L", "i", "s", "t">>

\* index of the first occurrence of character c in s from i on, 0 when there
\* is none
RECURSIVE FindFrom(_, _, _)
FindFrom(s, c, i) ==
    IF i > Len(s) THEN 0
    ELSE IF s[i] = c THEN i
    ELSE FindFrom(s, c, i + 1)

Find(s, c) == FindFrom(s, c, 1)

\* s cut at index i: what is before it, what is after it
Before(s, i) == SubSeq(s, 1, i - 1)
After(s, i) == SubSeq(s, i + 1, Len(s))

\* bytes.splitlines(): split at line ends, no empty piece after a final one
RECURSIVE SplitLines(_)
SplitLinesAt(s, i) ==
    IF i = 0 THEN <<s>>
    ELSE <<Before(s, i)>> \o SplitLines(After(s, i))

SplitLines(s) ==
    IF s = EmptyStr THEN << >> ELSE SplitLinesAt(s, Find(s, NL))

\* str.split(sep): split at every separator, empty pieces kept
RECURSIVE SplitAll(_, _)
SplitAllAt(s, sep, i) ==
    IF i = 0 THEN <<s>>
    ELSE <<Before(s, i)>> \o SplitAll(After(s, i), sep)

SplitAll(s, sep) == SplitAllAt(s, sep, Find(s, sep))

\* str.split(sep): a split at every separator, where split(sep, 1) splits
\* once
Split1Every(s, sep) == SplitAll(s, sep)

\* str.split(sep, 1): at most one split, at the first separator
Split1At(s, i) ==
    IF i = 0 THEN <<s>> ELSE <<Before(s, i), After(s, i)>>

Split1(s, sep) == Split1At(s, Find(s, sep))

\* bytes.decode('ascii') / str.encode('ascii') succeed on 7-bit input only
IsAscii(s) == \A i \in 1..Len(s) : s[i] # HighByte

\* sep.join(parts)
RECURSIVE Join(_, _)
Join(parts, sep) ==
    IF parts = << >> THEN EmptyStr
    ELSE IF Len(parts) = 1 THEN parts[1]
    ELSE parts[1] \o sep \o Join(Tail(parts), sep)

\* ------------------------------------------------------------------------
\* Insertion-ordered dicts
\* ------------------------------------------------------------------------
EmptyDict == << >>

DictKeys(d) == {d[i][1] : i \in 1..Len(d)}

DictHas(d, k) == \E i \in 1..Len(d) : d[i][1] = k

DictIndex(d, k) == CHOOSE i \in 1..Len(d) : d[i][1] = k

DictGet(d, k) == d[DictIndex(d, k)][2]

\* d[k] = v: an existing key keeps its place, a new one goes last
DictSet(d, k, v) ==
    IF DictHas(d, k)
    THEN [d EXCEPT ![DictIndex(d, k)] = <<k, v>>]
    ELSE Append(d, <<k, v>>)

\* del d[k]
DictDelAt(d, i) == Before(d, i) \o After(d, i)

DictDel(d, k) == DictDelAt(d, DictIndex(d, k))

\* dict(pairs) for a list of 2-element lists: the last value of a key wins
RECURSIVE DictFromPairs(_)
DictFromPairs(pairs) ==
    IF pairs = << >> THEN EmptyDict
    ELSE DictSet(DictFromPairs(SubSeq(pairs, 1, Len(pairs) - 1)),
                 pairs[Len(pairs)][1], pairs[Len(pairs)][2])

\* ------------------------------------------------------------------------
\* Exceptions
\* ------------------------------------------------------------------------
\* no exception: the operation returned
NoExc == "None"

\* errors socket.connect() on an AF_UNIX stream socket can end with: the path
\* is absent, or nobody listens on it
ConnectErrors == {"FileNotFoundError", "ConnectionRefusedError"}

\* the subclasses of Python's ConnectionError
ConnectionErrorTypes ==
    {"ConnectionError", "ConnectionRefusedError", "ConnectionResetError",
     "ConnectionAbortedError", "BrokenPipeError"}

\* what app.qubesd_call() is seen to raise by the collection
CallErrors == ConnectErrors \cup {"QubesException"}

\* ------------------------------------------------------------------------
\* VMCollection: the listing parser of refresh_cache
\* ------------------------------------------------------------------------
LineError(e) == [exc |-> e, vm_name |-> EmptyStr, props |-> EmptyDict]

\* lines 65-66: dict([vm_prop.split('=', 1) for vm_prop in props])
ParsePairs(vm_name, pairs) ==
    IF \E i \in 1..Len(pairs) : Len(pairs[i]) # 2
    THEN LineError("ValueError")
    ELSE [exc |-> NoExc, vm_name |-> vm_name, props |-> DictFromPairs(pairs)]

\* line 64: props.split(' ')
ParseProps(vm_name, props) ==
    ParsePairs(vm_name, [i \in 1..Len(props) |-> Split1(props[i], EQ)])

\* line 62: vm_name, props = ....split(' ', 1)
ParseParts(parts) ==
    IF Len(parts) # 2 THEN LineError("ValueError")
    ELSE ParseProps(parts[1], SplitAll(parts[2], SP))

\* one line of the listing: lines 62-66
ParseLine(vm_data) ==
    IF ~IsAscii(vm_data) THEN LineError("UnicodeDecodeError")
    ELSE ParseParts(Split1(vm_data, SP))

\* the loop of lines 59-66 from line i on, new_vm_list built so far
RECURSIVE ParseLines(_, _, _)
ParseLinesWith(lines, i, new_vm_list, r) ==
    IF r.exc # NoExc THEN [exc |-> r.exc, new_vm_list |-> new_vm_list]
    ELSE ParseLines(lines, i + 1, DictSet(new_vm_list, r.vm_name, r.props))

ParseLines(lines, i, new_vm_list) ==
    IF i > Len(lines) THEN [exc |-> NoExc, new_vm_list |-> new_vm_list]
    ELSE ParseLinesWith(lines, i, new_vm_list, ParseLine(lines[i]))

ParseVMList(vm_list_data) == ParseLines(SplitLines(vm_list_data), 1, EmptyDict)

\* ------------------------------------------------------------------------
\* VMCollection: reconciliation of the instance table, lines 69-80
\* ------------------------------------------------------------------------
\* a wrapper object: its identity, its class name, its live name
Wrapper(id, cls, name) == [id |-> id, class |-> cls, name |-> name]

\* one iteration of the loop without lines 73-75: a wrapper whose class has
\* changed is kept
ReconcileStepKeeping(name, vm, new_list, objs) ==
    IF ~DictHas(new_list, vm.name)
    THEN [exc |-> NoExc, objs |-> DictDel(objs, name)]
    ELSE IF name # vm.name
    THEN [exc |-> NoExc, objs |-> DictDel(DictSet(objs, vm.name, vm), name)]
    ELSE [exc |-> NoExc, objs |-> objs]

\* one iteration of the loop, for the entry (name, vm) of the copied items
ReconcileStep(name, vm, new_list, objs) ==
    IF ~DictHas(new_list, vm.name)
    THEN [exc |-> NoExc, objs |-> DictDel(objs, name)]
    ELSE IF ~DictHas(DictGet(new_list, vm.name), s_class)
    THEN [exc |-> "KeyError", objs |-> objs]
    ELSE IF vm.class # DictGet(DictGet(new_list, vm.name), s_class)
    THEN [exc |-> NoExc, objs |-> DictDel(objs, name)]
    ELSE IF name # vm.name
    THEN [exc |-> NoExc, objs |-> DictDel(DictSet(objs, vm.name, vm), name)]
    ELSE [exc |-> NoExc, objs |-> objs]

\* the loop over list(self._vm_objects.items()), from entry i on
RECURSIVE Reconcile(_, _, _, _)
ReconcileWith(items, i, new_list, r) ==
    IF r.exc # NoExc THEN r
    ELSE Reconcile(items, i + 1, new_list, r.objs)

Reconcile(items, i, new_list, objs) ==
    IF i > Len(items) THEN [exc |-> NoExc, objs |-> objs]
    ELSE ReconcileWith(items, i, new_list,
                       ReconcileStep(items[i][1], items[i][2], new_list, objs))

\* ------------------------------------------------------------------------
\* VMCollection: refresh_cache, lines 51-80
\* ------------------------------------------------------------------------
\* self._vm_list: None, or a dict name -> properties
NoneList == [cached |-> FALSE, dict |-> EmptyDict]
SomeList(d) == [cached |-> TRUE, dict |-> d]

\* what a qubesd_call gives back: bytes returned, or an exception raised
Returned(data) == [kind |-> "return", data |-> data, exc |-> NoExc]
Raised(e) == [kind |-> "raise", data |-> EmptyStr, exc |-> e]
NoReply == [kind |-> "none", data |-> EmptyStr, exc |-> NoExc]

\* what an operation of the collection leaves (the snapshot, the instance
\* table, the number of wrappers created) and gives (the exception it raises,
\* the value it returns, the answer of the list call it made, whether it
\* installed a new snapshot)
Outcome(vl, objs, nid, exc, val, rep) ==
    [vm_list |-> vl, vm_objects |-> objs, next_id |-> nid,
     exc |-> exc, val |-> val, reply |-> rep, installed |-> FALSE]

\* lines 68-80: the new snapshot is installed, then the table reconciled
refresh_install(new_vm_list, r, nid, answer) ==
    [Outcome(SomeList(new_vm_list), r.objs, nid, r.exc, 0, answer)
        EXCEPT !.installed = TRUE]

\* lines 59-80 with the new listing merged into the old snapshot instead of
\* replacing it
refresh_parsed_merging(vl, objs, nid, answer, p) ==
    IF p.exc # NoExc
    THEN Outcome(vl, objs, nid, p.exc, 0, answer)
    ELSE refresh_install(vl.dict \o p.new_vm_list,
                         Reconcile(objs, 1, p.new_vm_list, objs), nid, answer)

\* lines 59-80, p the outcome of the parsing loop
refresh_parsed(vl, objs, nid, answer, p) ==
    IF p.exc # NoExc
    THEN Outcome(vl, objs, nid, p.exc, 0, answer)
    ELSE refresh_install(p.new_vm_list, Reconcile(objs, 1, p.new_vm_list, objs),
                         nid, answer)

\* refresh_cache without the early return of lines 53-54: every call lists
refresh_cache_unguarded(vl, objs, nid, force, answer) ==
    IF answer.kind = "raise"
    THEN Outcome(vl, objs, nid, answer.exc, 0, answer)
    ELSE refresh_parsed(vl, objs, nid, answer, ParseVMList(answer.data))

\* refresh_cache(force) on the state (vl, objs), the list call answering
\* `answer`: the state it leaves, the exception it raises, the call it made
refresh_cache(vl, objs, nid, force, answer) ==
    IF ~force /\ vl.cached
    THEN Outcome(vl, objs, nid, NoExc, 0, NoReply)
    ELSE IF answer.kind = "raise"
    THEN Outcome(vl, objs, nid, answer.exc, 0, answer)
    ELSE refresh_parsed(vl, objs, nid, answer, ParseVMList(answer.data))

\* ------------------------------------------------------------------------
\* VMCollection: __contains__, __getitem__, __iter__, keys (lines 82-103)
\* ------------------------------------------------------------------------
\* the classes registered under the entry point group 'qubesmgmt.vm'
EntryPoints == {s_AppVM, s_DispVM}

\* qubesmgmt.utils.get_entry_point_one('qubesmgmt.vm', name)
get_entry_point_one(name) ==
    IF name \in EntryPoints THEN [exc |-> NoExc, cls |-> name]
    ELSE [exc |-> "KeyError", cls |-> name]

\* line 93, r the outcome of the refresh of line 92
contains_in(r, item) ==
    IF r.exc # NoExc THEN [r EXCEPT !.val = FALSE]
    ELSE [r EXCEPT !.val = DictHas(r.vm_list.dict, item)]

\* item in self: refresh, then look the name up in the snapshot
contains(vl, objs, nid, item, answer) ==
    contains_in(refresh_cache(vl, objs, nid, FALSE, answer), item)

\* line 88, e the class found for the snapshot's `class` of item
getitem_new(c, item, e) ==
    IF e.exc # NoExc THEN [c EXCEPT !.exc = e.exc, !.val = 0]
    ELSE [c EXCEPT !.vm_objects = DictSet(c.vm_objects, item,
                                          Wrapper(c.next_id + 1, e.cls, item)),
                   !.next_id = c.next_id + 1,
                   !.val = c.next_id + 1]

\* lines 83-89, c the outcome of `item not in self`
getitem_in(c, item) ==
    IF c.exc # NoExc THEN [c EXCEPT !.val = 0]
    ELSE IF ~c.val THEN [c EXCEPT !.exc = "KeyError", !.val = 0]
    ELSE IF DictHas(c.vm_objects, item)
    THEN [c EXCEPT !.val = DictGet(c.vm_objects, item).id]
    ELSE IF ~DictHas(DictGet(c.vm_list.dict, item), s_class)
    THEN [c EXCEPT !.exc = "KeyError", !.val = 0]
    ELSE getitem_new(c, item,
             get_entry_point_one(DictGet(DictGet(c.vm_list.dict, item), s_class)))

\* self[item]
getitem(vl, objs, nid, item, answer) ==
    getitem_in(contains(vl, objs, nid, item, answer), item)

\* the loop `for vm in self._vm_list: yield self[vm]`, run to its end, from
\* key i of the snapshot that was current when the loop began
RECURSIVE iter_loop(_, _, _, _, _)
iter_next(names, i, got, rep, g) ==
    IF g.exc # NoExc
    THEN [g EXCEPT !.val = got, !.reply = rep]
    ELSE iter_loop(names, i + 1, g, Append(got, g.val), rep)

iter_loop(names, i, st, got, rep) ==
    IF i > Len(names)
    THEN [st EXCEPT !.exc = NoExc, !.val = got, !.reply = rep]
    ELSE iter_next(names, i, got, rep,
             getitem(st.vm_list, st.vm_objects, st.next_id, names[i][1], NoReply))

\* lines 96-98, r the outcome of the refresh of line 96
iterate_in(r) ==
    IF r.exc # NoExc THEN [r EXCEPT !.val = << >>]
    ELSE iter_loop(r.vm_list.dict, 1, r, << >>, r.reply)

\* list(iter(self)): the generator consumed to its end
iterate(vl, objs, nid, answer) ==
    iterate_in(refresh_cache(vl, objs, nid, FALSE, answer))

\* line 103, r the outcome of the refresh of line 102
keys_in(r) ==
    IF r.exc # NoExc THEN [r EXCEPT !.val = {}]
    ELSE [r EXCEPT !.val = DictKeys(r.vm_list.dict)]

\* self.keys()
keys(vl, objs, nid, answer) ==
    keys_in(refresh_cache(vl, objs, nid, FALSE, answer))

\* ------------------------------------------------------------------------
\* Listing payloads the daemon may answer a 'mgmt.vm.List' call with
\* ------------------------------------------------------------------------
Names == {s_a, s_b}

\* a record of a listing: a name and its key=value properties, in order
Prop(k, v) == <<k, v>>
Record(name, props) == [name |-> name, props |-> props]

\* `name key=value key=value`
EncodeRecord(r) ==
    r.name \o <<SP>> \o
    Join([i \in 1..Len(r.props) |-> r.props[i][1] \o <<EQ>> \o r.props[i][2]], <<SP>>)

\* one record per line, every line ended by a line terminator
RECURSIVE EncodeListing(_)
EncodeListing(recs) ==
    IF recs = << >> THEN EmptyStr
    ELSE EncodeRecord(Head(recs)) \o <<NL>> \o EncodeListing(Tail(recs))

\* lines ended by a line terminator each
RECURSIVE EncodeLines(_)
EncodeLines(lines) ==
    IF lines = << >> THEN EmptyStr
    ELSE Head(lines) \o <<NL>> \o EncodeLines(Tail(lines))

SeqsUpTo(S, n) == UNION {[1..m -> S] : m \in 0..n}

a_App == Record(s_a, <<Prop(s_class, s_AppVM)>>)
a_Disp == Record(s_a, <<Prop(s_class, s_DispVM)>>)
b_App == Record(s_b, <<Prop(s_class, s_AppVM)>>)
b_Disp == Record(s_b, <<Prop(s_class, s_DispVM)>>)
\* records without a `class` property
a_NoClass == Record(s_a, <<Prop(s_k, s_v)>>)
b_NoClass == Record(s_b, <<Prop(s_k, s_v)>>)

\* the listings of the collection's specification
Listings ==
    { EncodeListing(<< >>),
      EncodeListing(<<a_App>>),
      EncodeListing(<<a_Disp>>),
      EncodeListing(<<b_App>>),
      EncodeListing(<<a_App, b_App>>),
      EncodeListing(<<b_App, a_Disp>>),
      EncodeListing(<<b_NoClass, a_Disp>>),
      EncodeListing(<<a_NoClass>>),
      EncodeLines(<<s_a>>),
      EncodeLines(<<EncodeRecord(b_App), EmptyStr>>) }

\* records of the parser's specification: one or two properties, a value
\* that holds a '=', a record without `class`
ParseRecords ==
    { a_App,
      Record(s_b, <<Prop(s_class, s_DispVM), Prop(s_k, s_vw)>>),
      b_NoClass }

\* lines that are no `name key=value ...` record: a name alone, a property
\* token without '=', an empty line, a name and an empty token, a byte
\* that is not ASCII
BadLines ==
    { s_a,
      s_b \o <<SP>> \o s_class,
      EmptyStr,
      s_a \o <<SP, SP>> \o s_k \o <<EQ>> \o s_v,
      s_a \o <<SP>> \o s_k \o <<EQ, HighByte>> }

ParseLineSet == {EncodeRecord(r) : r \in ParseRecords} \cup BadLines

\* the payloads of at most MaxLines lines of ParseLineSet with at most one
\* bad line, in any position (the loop of lines 61-66 ends at the first
\* one), and a record that no line terminator follows
ParseListings ==
    {EncodeLines(ls) :
        ls \in {l \in SeqsUpTo(ParseLineSet, MaxLines) :
                  \A i, j \in 1..Len(l) :
                      (l[i] \in BadLines /\ l[j] \in BadLines) => i = j}}
    \cup {EncodeRecord(a_App)}

\* what the list call may answer: a payload, or an exception
Answers(payloads) ==
    {Returned(p) : p \in payloads} \cup {Raised(e) : e \in CallErrors}

\* ------------------------------------------------------------------------
\* State
\* ------------------------------------------------------------------------
VARIABLES
    vm_list,      \* VMCollection._vm_list
    vm_objects,   \* VMCollection._vm_objects: name -> wrapper, in insertion order
    next_id,      \* number of wrapper instances created so far
    op,           \* the operation that ran last
    result,       \* what it raised (exc) and returned (val)
    reply,        \* what the list call of that operation answered, if it made one
    hist,         \* how the snapshot came about (see History)
    conn,         \* qubesd_connection_type of the application object
    argv,         \* destination and service name the last helper was started with
    pc,           \* where the qubesd_call in progress stands
    call,         \* its arguments
    wire,         \* the bytes it has written to its socket or subprocess
    sock,         \* the state of its socket or subprocess
    buf,          \* the response bytes it has read
    diag,         \* the diagnostic text its helper wrote
    unclosed,     \* sockets of finished calls that nobody closed
    cres,         \* what the last finished qubesd_call raised or returned
    pool_drivers, \* QubesBase._pool_drivers: None, or driver -> parameter names
    drivers_data, \* the ListDrivers response _pool_drivers was filled from
    pop,          \* the pool operation that ran last
    pres,         \* what it raised (exc) and returned (val)
    pcalls,       \* the qubesd_call()s it made, in order
    preply,       \* what its ListDrivers call answered, if it made one
    debug,        \* __debug__: False when the interpreter runs with -O
    thr           \* the callers that share the collection: where each stands

cvars == <<vm_list, vm_objects, next_id, op, result, reply, hist>>
tvars == <<conn, argv, pc, call, wire, sock, buf, diag, unclosed, cres>>
pvars == <<pool_drivers, drivers_data, pop, pres, pcalls, preply, debug>>
vars == <<vm_list, vm_objects, next_id, op, result, reply, hist,
          conn, argv, pc, call, wire, sock, buf, diag, unclosed, cres,
          pool_drivers, drivers_data, pop, pres, pcalls, preply, debug, thr>>

\* History of the snapshot, kept for the properties only:
\*   forced: the current snapshot was installed by refresh_cache(force=True);
\*   lazy:   what became of the refresh_cache(force=False) calls made since
\*           the last forced refresh: "no" when there was none; "raised" when
\*           the last one raised; "valid" when one returned and the snapshot
\*           was not dropped since, "again" when a further one returned after
\*           it; "stale" when the snapshot was dropped since one returned
History(forced, lazy) == [forced |-> forced, lazy |-> lazy]

\* the history after the operation o with outcome r
HistoryAfter(o, r) ==
    History(IF r.installed THEN o.force ELSE hist.forced,
            IF o.name = "refresh_cache" /\ o.force THEN "no"
            ELSE IF o.name # "refresh_cache" THEN hist.lazy
            ELSE IF r.exc # NoExc THEN "raised"
            ELSE IF hist.lazy \in {"valid", "again"} THEN "again"
            ELSE "valid")

\* the history after the snapshot was dropped
HistoryDropped ==
    History(FALSE, IF hist.lazy \in {"valid", "again"} THEN "stale" ELSE hist.lazy)

Op(name, force, item) == [name |-> name, force |-> force, item |-> item]
Result(exc, val) == [exc |-> exc, val |-> val]

\* ------------------------------------------------------------------------
\* Operations of the collection
\* ------------------------------------------------------------------------
\* the answers an operation can meet: it makes the list call only when the
\* collection is Uncached or the refresh is forced
Meets(force, payloads) ==
    IF ~force /\ vm_list.cached THEN {NoReply} ELSE Answers(payloads)

\* lines 47-49
ClearCache ==
    /\ vm_list' = NoneList
    /\ op' = Op("clear_cache", FALSE, EmptyStr)
    /\ result' = Result(NoExc, 0)
    /\ reply' = NoReply
    /\ hist' = HistoryDropped
    /\ UNCHANGED <<vm_objects, next_id>>
    /\ UNCHANGED <<tvars, pvars, thr>>

\* the state an operation leaves and what it gave, r its outcome
Done(o, r) ==
    /\ vm_list' = r.vm_list
    /\ vm_objects' = r.vm_objects
    /\ next_id' = r.next_id
    /\ op' = o
    /\ result' = Result(r.exc, r.val)
    /\ reply' = r.reply
    /\ hist' = HistoryAfter(o, r)
    /\ UNCHANGED <<tvars, pvars, thr>>

\* lines 51-80
RefreshCache(force, payloads) ==
    \E answer \in Meets(force, payloads) :
        Done(Op("refresh_cache", force, EmptyStr),
             refresh_cache(vm_list, vm_objects, next_id, force, answer))

\* lines 91-93
Contains(item, payloads) ==
    \E answer \in Meets(FALSE, payloads) :
        Done(Op("contains", FALSE, item),
             contains(vm_list, vm_objects, next_id, item, answer))

\* lines 100-103
Keys(payloads) ==
    \E answer \in Meets(FALSE, payloads) :
        Done(Op("keys", FALSE, EmptyStr),
             keys(vm_list, vm_objects, next_id, answer))

\* an operation that creates wrappers runs while instances are left to create
Bounded(r) == r.next_id <= MaxObjects

\* lines 82-89
GetItem(item, payloads) ==
    \E answer \in Meets(FALSE, payloads) :
        /\ Bounded(getitem(vm_list, vm_objects, next_id, item, answer))
        /\ Done(Op("getitem", FALSE, item),
                getitem(vm_list, vm_objects, next_id, item, answer))

\* lines 95-98
Iter(payloads) ==
    \E answer \in Meets(FALSE, payloads) :
        /\ Bounded(iterate(vm_list, vm_objects, next_id, answer))
        /\ Done(Op("iter", FALSE, EmptyStr),
                iterate(vm_list, vm_objects, next_id, answer))

\* vm.name = new_name on the wrapper stored under `key`: the daemon is asked
\* to rename the VM; when it agrees the wrapper takes the new name and the
\* collection's snapshot is dropped
Rename(key, new_name) ==
    /\ DictHas(vm_objects, key)
    /\ \E answer \in {Returned(EmptyStr)} \cup {Raised(e) : e \in CallErrors} :
        /\ op' = Op("rename", FALSE, key)
        /\ result' = Result(answer.exc, 0)
        /\ reply' = NoReply
        /\ IF answer.kind = "raise"
           THEN UNCHANGED <<vm_list, vm_objects, hist>>
           ELSE /\ vm_objects' = DictSet(vm_objects, key,
                                    [DictGet(vm_objects, key) EXCEPT !.name = new_name])
                /\ vm_list' = NoneList
                /\ hist' = HistoryDropped
    /\ UNCHANGED next_id
    /\ UNCHANGED <<tvars, pvars, thr>>

\* ------------------------------------------------------------------------
\* The transports: QubesLocal.qubesd_call and QubesRemote.qubesd_call
\* ------------------------------------------------------------------------
\* an optional argument: None, or a value
None == << >>
Some(x) == <<x>>

\* the response decoder, PropertyHolder._parse_qubesd_response: a success
\* marker line followed by the payload, an error marker line followed by the
\* daemon's error, anything else is no response of the protocol
parse_qubesd_response(data) ==
    IF Len(data) < 2 \/ data[2] # NUL THEN Raised("ProtocolError")
    ELSE IF data[1] = "0" THEN Returned(SubSeq(data, 3, Len(data)))
    ELSE IF data[1] = "2" THEN Raised("RemoteCallError")
    ELSE Raised("ProtocolError")

\* the calls of the transport's specification
CallDests == {s_dom0, s_a}
CallMethods == {s_List}
CallArgs == {None, Some(EmptyStr), Some(s_b), Some(<<HighByte>>)}
CallPayloads == {None, Some(<<"p", NUL>>)}
Calls == [dest : CallDests, method : CallMethods, arg : CallArgs,
          payload : CallPayloads]
NoCall == [dest |-> EmptyStr, method |-> EmptyStr, arg |-> None, payload |-> None]

\* what the daemon may send back on the socket, or the helper on its stdout
Responses ==
    { EmptyStr,
      <<"0", NUL>>,
      <<"0", NUL>> \o EncodeListing(<<a_App>>),
      <<"2", NUL, "E">>,
      <<"x">> }

\* the text 'Service call error: ' of line 226
ServiceCallError == <<"Service call error: ">>

\* what the helper may write to its diagnostic stream
Diagnostics == {EmptyStr, <<"n", "o">>, <<HighByte>>}

At(at, i) == [at |-> at, i |-> i]
Idle == At("idle", 0)

\* a finished call: the exception raised (NoExc: returned), the returned
\* bytes, the exception's message, whether the decoder was given the response
Finished(r, msg, decoded) ==
    [exc |-> r.exc, val |-> r.data, msg |-> msg, decoded |-> decoded]
NotCalled == Finished(NoReply, EmptyStr, FALSE)

\* the request fields in the order of the loop of line 195
Fields(c) == <<Some(s_dom0), Some(c.method), Some(c.dest), c.arg>>

\* the call ends while it holds its socket, and no statement of it closes
\* the socket: the interpreter finalizes the object at once when nothing
\* refers to it any more (reference counting, no traceback kept), or leaves
\* it open to a later collection
Abandon ==
    \/ UNCHANGED unclosed
    \/ unclosed' = unclosed + 1

\* the call ends by the exception e
LocalRaise(e) ==
    /\ cres' = Finished(Raised(e), EmptyStr, FALSE)
    /\ pc' = Idle
    /\ sock' = "none"
    /\ Abandon
    /\ UNCHANGED <<conn, argv, call, wire, buf, diag>>

\* lines 187-192: a socket is created and connected
LocalConnect(c) ==
    /\ conn = "socket"
    /\ pc = Idle
    /\ call' = c
    /\ wire' = EmptyStr
    /\ buf' = EmptyStr
    /\ diag' = EmptyStr
    /\ IF unclosed >= MaxOpen
       THEN \* socket.socket() fails: no descriptor is left
            /\ cres' = Finished(Raised("OSError"), EmptyStr, FALSE)
            /\ UNCHANGED <<pc, sock, unclosed>>
       ELSE \/ /\ pc' = At("send", 1)
               /\ sock' = "connected"
               /\ cres' = NotCalled
               /\ UNCHANGED unclosed
            \/ \E e \in ConnectErrors :
                  \* `except IOError: raise`
                  /\ cres' = Finished(Raised(e), EmptyStr, FALSE)
                  /\ pc' = Idle
                  /\ sock' = "none"
                  /\ Abandon
    /\ UNCHANGED <<conn, argv>>
    /\ UNCHANGED <<cvars, pvars, thr>>

\* call_arg.encode('ascii') of line 197 succeeds, or is not reached (line 196)
Encodable(f) == IF f = None THEN TRUE ELSE IsAscii(f[1])

\* lines 196-198 with line 198 inside the `if`: an absent field writes
\* nothing at all
SendFieldSkipping(f) ==
    \/ /\ ~Encodable(f)
       /\ LocalRaise("UnicodeEncodeError")
    \/ /\ Encodable(f)
       /\ wire' = wire \o (IF f = None THEN EmptyStr ELSE f[1] \o <<NUL>>)
       /\ pc' = IF pc.i < 4 THEN At("send", pc.i + 1) ELSE At("payload", 0)
       /\ UNCHANGED <<conn, argv, call, sock, buf, diag, unclosed, cres>>
    \/ LocalRaise("BrokenPipeError")

\* lines 196-198 for the field f
SendField(f) ==
    \/ /\ ~Encodable(f)
       /\ LocalRaise("UnicodeEncodeError")
    \/ /\ Encodable(f)
       /\ wire' = wire \o (IF f = None THEN EmptyStr ELSE f[1]) \o <<NUL>>
       /\ pc' = IF pc.i < 4 THEN At("send", pc.i + 1) ELSE At("payload", 0)
       /\ UNCHANGED <<conn, argv, call, sock, buf, diag, unclosed, cres>>
    \/ \* sendall() fails: the peer has gone
       LocalRaise("BrokenPipeError")

\* lines 195-198: one turn of the loop over ('dom0', method, dest, arg)
LocalSendField ==
    /\ pc.at = "send"
    /\ SendField(Fields(call)[pc.i])
    /\ UNCHANGED <<cvars, pvars, thr>>

\* lines 199-200 followed by line 204: the write side is not half-closed
LocalSendPayloadUnshut ==
    /\ pc.at = "payload"
    /\ wire' = wire \o (IF call.payload = None THEN EmptyStr ELSE call.payload[1])
    /\ pc' = At("read", 0)
    /\ UNCHANGED <<conn, argv, call, sock, buf, diag, unclosed, cres>>
    /\ UNCHANGED <<cvars, pvars, thr>>

\* lines 199-200
LocalSendPayload ==
    /\ pc.at = "payload"
    /\ wire' = wire \o (IF call.payload = None THEN EmptyStr ELSE call.payload[1])
    /\ pc' = At("shutdown", 0)
    /\ UNCHANGED <<conn, argv, call, sock, buf, diag, unclosed, cres>>
    /\ UNCHANGED <<cvars, pvars, thr>>

\* line 202
LocalShutdown ==
    /\ pc.at = "shutdown"
    /\ sock' = "shut_wr"
    /\ pc' = At("read", 0)
    /\ UNCHANGED <<conn, argv, call, wire, buf, diag, unclosed, cres>>
    /\ UNCHANGED <<cvars, pvars, thr>>

\* line 204: the response is read to its end
LocalRead ==
    /\ pc.at = "read"
    /\ \/ \E data \in Responses :
             /\ buf' = data
             /\ pc' = At("parse", 0)
             /\ UNCHANGED <<conn, argv, call, wire, sock, diag, unclosed, cres>>
       \/ LocalRaise("ConnectionResetError")
    /\ UNCHANGED <<cvars, pvars, thr>>

\* line 205: the response is decoded and the call ends; nothing closes the
\* socket (there is no close() in lines 186-205)
LocalReturn ==
    /\ pc.at = "parse"
    /\ cres' = Finished(parse_qubesd_response(buf), EmptyStr, TRUE)
    /\ pc' = Idle
    /\ sock' = "none"
    /\ Abandon
    /\ UNCHANGED <<conn, argv, call, wire, buf, diag>>
    /\ UNCHANGED <<cvars, pvars, thr>>

\* the interpreter finalizes a socket object that nothing refers to any more,
\* at a moment of its choosing
CollectGarbage ==
    /\ unclosed > 0
    /\ unclosed' = unclosed - 1
    /\ UNCHANGED <<conn, argv, pc, call, wire, sock, buf, diag, cres>>
    /\ UNCHANGED <<cvars, pvars, thr>>

\* the service name of lines 217-219
ServiceName(c) ==
    IF c.arg = None THEN c.method ELSE c.method \o <<"+">> \o c.arg[1]

\* lines 217-222: the helper is started
RemotePopen(c) ==
    /\ conn = "qrexec"
    /\ pc = Idle
    /\ call' = c
    /\ argv' = <<c.dest, ServiceName(c)>>
    /\ wire' = EmptyStr
    /\ buf' = EmptyStr
    /\ diag' = EmptyStr
    /\ \/ /\ pc' = At("communicate", 0)
          /\ sock' = "process"
          /\ cres' = NotCalled
       \/ \* the helper cannot be started
          /\ cres' = Finished(Raised("FileNotFoundError"), EmptyStr, FALSE)
          /\ sock' = "none"
          /\ UNCHANGED pc
    /\ UNCHANGED <<conn, unclosed>>
    /\ UNCHANGED <<cvars, pvars, thr>>

\* lines 225-227: the exception of a helper that exited non-zero; a
\* diagnostic that stderr.decode() cannot decode raises instead
ServiceFailed(stderr) ==
    IF IsAscii(stderr)
    THEN Finished(Raised("QubesException"), ServiceCallError \o stderr, FALSE)
    ELSE Finished(Raised("UnicodeDecodeError"), EmptyStr, FALSE)

\* lines 223-229: communicate() writes the payload, reads both streams to
\* their end and waits for the helper; then the exit code decides
RemoteCommunicate ==
    /\ pc.at = "communicate"
    /\ \E returncode \in {0, 1}, stdout \in Responses, stderr \in Diagnostics :
          /\ wire' = IF call.payload = None THEN EmptyStr ELSE call.payload[1]
          /\ buf' = stdout
          /\ diag' = stderr
          /\ sock' = IF returncode # 0 THEN "exited_1" ELSE "exited_0"
          /\ cres' = IF returncode # 0
                     THEN ServiceFailed(stderr)
                     ELSE Finished(parse_qubesd_response(stdout), EmptyStr, TRUE)
    /\ pc' = Idle
    /\ UNCHANGED <<conn, argv, call, unclosed>>
    /\ UNCHANGED <<cvars, pvars, thr>>

\* ------------------------------------------------------------------------
\* QubesBase: the pool-driver cache and the pool calls, lines 126-175
\* ------------------------------------------------------------------------
\* bound of the model: options given to one add_pool
MaxOptions == 2

\* a character outside ASCII, and the two bytes UTF-8 encodes it as
EAcute == "\\u00e9"
Utf8Lead == "\\xc3"
Utf8Cont == "\\xa9"

\* the characters of option keys, by code point
CodePointOrder == <<"1", "2", "B", "a", "b", EAcute>>

Ord(c) == CHOOSE i \in 1..Len(CodePointOrder) : CodePointOrder[i] = c

\* s < t as Python compares str: by code point, a proper prefix first
RECURSIVE StrLess(_, _)
StrLess(s, t) ==
    IF t = EmptyStr THEN FALSE
    ELSE IF s = EmptyStr THEN TRUE
    ELSE IF Head(s) # Head(t) THEN Ord(Head(s)) < Ord(Head(t))
    ELSE StrLess(Tail(s), Tail(t))

\* items with the item x put before the first item with a greater key
RECURSIVE Insert(_, _)
Insert(x, items) ==
    IF items = << >> THEN <<x>>
    ELSE IF StrLess(x[1], Head(items)[1]) THEN <<x>> \o items
    ELSE <<Head(items)>> \o Insert(x, Tail(items))

\* kwargs.items() as they come, where line 169 sorts them
Unsorted(items) == items

\* sorted(kwargs.items()) of line 169: keys are distinct, so the key decides
RECURSIVE Sorted(_)
Sorted(items) ==
    IF items = << >> THEN << >>
    ELSE Insert(Head(items), Sorted(Tail(items)))

\* str.encode('utf-8')
RECURSIVE Utf8(_)
Utf8(s) ==
    IF s = EmptyStr THEN EmptyStr
    ELSE (IF Head(s) = EAcute THEN <<Utf8Lead, Utf8Cont>> ELSE <<Head(s)>>)
         \o Utf8(Tail(s))

\* ''.join('{}={}\n'.format(key, value) for key, value in items)
RECURSIVE OptionLines(_)
OptionLines(items) ==
    IF items = << >> THEN EmptyStr
    ELSE Head(items)[1] \o <<EQ>> \o Head(items)[2] \o <<NL>>
         \o OptionLines(Tail(items))

s_name == <<"n", "a", "m", "e">>
s_ListDrivers == <<"mgmt.pool.ListDrivers">>
s_Add == <<"mgmt.pool.Add">>
s_Remove == <<"mgmt.pool.Remove">>

\* lines 167-171: the payload of add_pool, as bytes
add_pool_payload(name, kwargs) ==
    Utf8(s_name \o <<EQ>> \o name \o <<NL>> \o OptionLines(Sorted(kwargs)))

\* a qubesd_call(dest, method, arg, payload)
Call(dest, method, arg, payload) ==
    [dest |-> dest, method |-> method, arg |-> arg, payload |-> payload]

\* self._pool_drivers: None, or a dict driver -> list of parameter names
NoDrivers == [cached |-> FALSE, dict |-> EmptyDict]
SomeDrivers(d) == [cached |-> TRUE, dict |-> d]

\* what a pool operation leaves (the cache, the response it was filled from)
\* and gives (the exception, the value, the calls made, the answer of the
\* ListDrivers call)
PoolOutcome(pd, data, exc, val, calls, rep) ==
    [pool_drivers |-> pd, drivers_data |-> data, exc |-> exc, val |-> val,
     calls |-> calls, reply |-> rep]

\* lines 142-143 for one line that is not empty
DriverParts(parts) ==
    IF Len(parts) # 2 THEN [exc |-> "ValueError", name |-> EmptyStr, options |-> << >>]
    ELSE [exc |-> NoExc, name |-> parts[1], options |-> SplitAll(parts[2], SP)]

\* the loop of lines 139-143 from line i on
RECURSIVE DriverLines(_, _, _)
DriverLinesWith(lines, i, drivers, r) ==
    IF r.exc # NoExc THEN [exc |-> r.exc, drivers |-> drivers]
    ELSE DriverLines(lines, i + 1, DictSet(drivers, r.name, r.options))

DriverLines(lines, i, drivers) ==
    IF i > Len(lines) THEN [exc |-> NoExc, drivers |-> drivers]
    ELSE IF lines[i] = EmptyStr THEN DriverLines(lines, i + 1, drivers)
    ELSE DriverLinesWith(lines, i, drivers, DriverParts(Split1(lines[i], SP)))

\* pool_drivers_data.endswith(b'\n')
EndsWithNL(data) == IF data = EmptyStr THEN FALSE ELSE data[Len(data)] = NL

\* lines 138-144, p the outcome of the loop
pool_drivers_parsed(pd, data, made, answer, p) ==
    IF p.exc # NoExc
    THEN PoolOutcome(pd, data, p.exc, 0, <<made>>, answer)
    ELSE PoolOutcome(SomeDrivers(p.drivers), Some(answer.data), NoExc, 0,
                     <<made>>, answer)

\* lines 135-144: the cache is empty, the list call answers `answer`
pool_drivers_fetched(pd, data, dbg, made, answer) ==
    IF answer.kind = "raise"
    THEN PoolOutcome(pd, data, answer.exc, 0, <<made>>, answer)
    ELSE IF dbg /\ ~EndsWithNL(answer.data)
    THEN PoolOutcome(pd, data, "AssertionError", 0, <<made>>, answer)
    ELSE IF ~IsAscii(answer.data)
    THEN PoolOutcome(pd, data, "UnicodeDecodeError", 0, <<made>>, answer)
    ELSE pool_drivers_parsed(pd, data, made, answer,
             DriverLines(SplitLines(answer.data), 1, EmptyDict))

\* _refresh_pool_drivers() without the test of line 134: every call lists
refresh_pool_drivers_always(pd, data, dbg, answer) ==
    pool_drivers_fetched(pd, data, dbg,
        Call(s_dom0, s_ListDrivers, None, None), answer)

\* _refresh_pool_drivers()
refresh_pool_drivers(pd, data, dbg, answer) ==
    IF pd.cached
    THEN PoolOutcome(pd, data, NoExc, 0, << >>, NoReply)
    ELSE pool_drivers_fetched(pd, data, dbg,
             Call(s_dom0, s_ListDrivers, None, None), answer)

\* line 150, r the outcome of the refresh of line 149
pool_drivers_in(r) ==
    IF r.exc # NoExc THEN r
    ELSE [r EXCEPT !.val = DictKeys(r.pool_drivers.dict)]

\* line 155, r the outcome of the refresh of line 154
pool_driver_parameters_in(r, driver) ==
    IF r.exc # NoExc THEN r
    ELSE IF ~DictHas(r.pool_drivers.dict, driver) THEN [r EXCEPT !.exc = "KeyError"]
    ELSE [r EXCEPT !.val = DictGet(r.pool_drivers.dict, driver)]

\* lines 167-171
add_pool(pd, data, name, driver, kwargs, answer) ==
    PoolOutcome(pd, data, answer.exc, 0,
                <<Call(s_dom0, s_Add, Some(driver),
                       Some(add_pool_payload(name, kwargs)))>>,
                NoReply)

\* line 175
remove_pool(pd, data, name, answer) ==
    PoolOutcome(pd, data, answer.exc, 0,
                <<Call(s_dom0, s_Remove, Some(name), None)>>, NoReply)

\* a driver of a listing: its name and the names of its parameters
DriverRecord(name, options) == [name |-> name, options |-> options]

\* `driver param param`
EncodeDriver(r) == r.name \o <<SP>> \o Join(r.options, <<SP>>)

\* one driver per line, every line ended by a line terminator
EncodeDrivers(recs) ==
    EncodeLines([i \in 1..Len(recs) |-> EncodeDriver(recs[i])])

s_f == <<"f">>
s_l == <<"l">>
s_x == <<"x">>
s_y == <<"y">>
d_file == DriverRecord(s_f, <<s_x, s_y>>)
d_lvm == DriverRecord(s_l, <<s_y>>)

\* what the daemon may answer a 'mgmt.pool.ListDrivers' call with: no
\* driver, one, two, a blank line among them; a payload without its final
\* line terminator, an empty payload, a driver without parameters, a byte
\* that is not ASCII
DriverListings ==
    { EncodeDrivers(<< >>) \o <<NL>>,
      EncodeDrivers(<<d_file>>),
      EncodeDrivers(<<d_lvm, d_file>>),
      EncodeDrivers(<<d_file>>) \o <<NL>> \o EncodeDrivers(<<d_lvm>>),
      EncodeDriver(d_file),
      EmptyStr,
      EncodeLines(<<s_f>>),
      EncodeLines(<<s_f \o <<SP, HighByte>>>>) }

PoolNames == {<<"p">>, <<EAcute>>}
DriverNames == {s_f, s_l}

\* the options add_pool may be given, and every **kwargs of at most
\* MaxOptions of them, in every order of the keywords
OptionItems ==
    { <<s_a, <<"1">>>>, <<s_b, <<"2">>>>, <<<<"B">>, <<EAcute>>>>,
      <<<<"a", "b">>, <<"1">>>> }

Options ==
    {kw \in SeqsUpTo(OptionItems, MaxOptions) :
        \A i, j \in 1..Len(kw) : kw[i][1] = kw[j][1] => i = j}

PoolOp(name, item, driver, kwargs) ==
    [name |-> name, item |-> item, driver |-> driver, kwargs |-> kwargs]

\* the answers _refresh_pool_drivers can meet: it makes the list call only
\* while the cache is empty
PoolMeets ==
    IF pool_drivers.cached THEN {NoReply} ELSE Answers(DriverListings)

\* what a pool call that returns nothing of interest may answer
Acks == {Returned(EmptyStr)} \cup {Raised(e) : e \in CallErrors}

\* the state a pool operation leaves and what it gave, r its outcome
PoolDone(o, r) ==
    /\ pool_drivers' = r.pool_drivers
    /\ drivers_data' = r.drivers_data
    /\ pop' = o
    /\ pres' = Result(r.exc, r.val)
    /\ pcalls' = r.calls
    /\ preply' = r.reply
    /\ UNCHANGED debug
    /\ UNCHANGED <<cvars, tvars, thr>>

\* lines 146-150
PoolDrivers ==
    \E answer \in PoolMeets :
        PoolDone(PoolOp("pool_drivers", EmptyStr, EmptyStr, EmptyDict),
                 pool_drivers_in(
                     refresh_pool_drivers(pool_drivers, drivers_data, debug, answer)))

\* lines 152-155
PoolDriverParameters(driver) ==
    \E answer \in PoolMeets :
        PoolDone(PoolOp("pool_driver_parameters", EmptyStr, driver, EmptyDict),
                 pool_driver_parameters_in(
                     refresh_pool_drivers(pool_drivers, drivers_data, debug, answer),
                     driver))

\* lines 157-171
AddPool(name, driver, kwargs) ==
    \E answer \in Acks :
        PoolDone(PoolOp("add_pool", name, driver, kwargs),
                 add_pool(pool_drivers, drivers_data, name, driver, kwargs, answer))

\* lines 173-175
RemovePool(name) ==
    \E answer \in Acks :
        PoolDone(PoolOp("remove_pool", name, EmptyStr, EmptyDict),
                 remove_pool(pool_drivers, drivers_data, name, answer))

\* ------------------------------------------------------------------------
\* Callers sharing one VMCollection: refresh_cache(force=True), clear_cache
\* and __getitem__ (lines 47-93), one statement at a time
\* ------------------------------------------------------------------------
Callers == {1, 2}

\* the listings the concurrent callers receive: every record has a `class`
ConcListings ==
    { EncodeListing(<< >>),
      EncodeListing(<<a_App>>),
      EncodeListing(<<a_Disp>>) }

\* the names the concurrent callers ask for
ConcNames == {s_a}

\* a caller: the operation it runs (op, item), the statement it stands at
\* (pc), its locals (new_vm_list, the copied items and the index i of the
\* loop of line 69, cls), and what its operation raised (exc, at `line`) or
\* returned (val)
IdleCaller ==
    [pc |-> "idle", op |-> "none", item |-> EmptyStr,
     new_vm_list |-> EmptyDict, items |-> EmptyDict, i |-> 0, cls |-> EmptyStr,
     exc |-> NoExc, line |-> 0, val |-> 0]

\* the operation of caller k returns val
CallerReturn(k, val) ==
    [IdleCaller EXCEPT !.pc = "returned", !.op = k.op, !.item = k.item,
                       !.val = val]

\* the operation of caller k raises exc at line
CallerRaise(k, exc, line) ==
    [IdleCaller EXCEPT !.pc = "raised", !.op = k.op, !.item = k.item,
                       !.exc = exc, !.line = line]

\* caller k goes to statement at
CallerGoto(k, at) == [k EXCEPT !.pc = at]

\* the calls in progress that may still create a wrapper
Getting == {t \in Callers : thr[t].op = "getitem"
                              /\ thr[t].pc \notin {"returned", "raised"}}

\* what the callers' steps leave alone
CallerFrame == UNCHANGED <<op, result, reply, hist, tvars, pvars>>

\* caller t calls refresh_cache(force=True): line 53 passes
BeginRefresh(t) ==
    /\ thr[t].pc = "idle"
    /\ thr' = [thr EXCEPT ![t] = [IdleCaller EXCEPT !.pc = "call",
                                                    !.op = "refresh_cache"]]
    /\ UNCHANGED <<vm_list, vm_objects, next_id>>
    /\ CallerFrame

\* caller t calls self[item]: lines 83, 92 lead to the test of line 53
BeginGet(t, item) ==
    /\ thr[t].pc = "idle"
    /\ next_id + Cardinality(Getting) < MaxObjects
    /\ thr' = [thr EXCEPT ![t] = [IdleCaller EXCEPT !.pc = "guard",
                                                    !.op = "getitem",
                                                    !.item = item]]
    /\ UNCHANGED <<vm_list, vm_objects, next_id>>
    /\ CallerFrame

\* caller t calls clear_cache(): line 49
CallerClearCache(t) ==
    /\ thr[t].pc = "idle"
    /\ vm_list' = NoneList
    /\ thr' = [thr EXCEPT ![t] =
                 CallerReturn([IdleCaller EXCEPT !.op = "clear_cache"], 0)]
    /\ UNCHANGED <<vm_objects, next_id>>
    /\ CallerFrame

\* lines 53-54 of the refresh_cache() of line 92
CallerGuard(t) ==
    /\ thr[t].pc = "guard"
    /\ thr' = [thr EXCEPT ![t] =
                 CallerGoto(thr[t], IF vm_list.cached THEN "in93" ELSE "call")]
    /\ UNCHANGED <<vm_list, vm_objects, next_id>>
    /\ CallerFrame

\* lines 55-66, p the outcome of the parsing loop
CallerListed(k, answer, p) ==
    IF answer.kind = "raise" THEN CallerRaise(k, answer.exc, 55)
    ELSE IF p.exc # NoExc THEN CallerRaise(k, p.exc, 62)
    ELSE [CallerGoto(k, "install") EXCEPT !.new_vm_list = p.new_vm_list]

\* lines 55-66: the list call and the parsing of its answer into the local
\* new_vm_list
CallerList(t) ==
    /\ thr[t].pc = "call"
    /\ \E answer \in Answers(ConcListings) :
          thr' = [thr EXCEPT ![t] =
                    CallerListed(thr[t], answer, ParseVMList(answer.data))]
    /\ UNCHANGED <<vm_list, vm_objects, next_id>>
    /\ CallerFrame

\* line 68
CallerInstall(t) ==
    /\ thr[t].pc = "install"
    /\ vm_list' = SomeList(thr[t].new_vm_list)
    /\ thr' = [thr EXCEPT ![t] = CallerGoto(thr[t], "copy")]
    /\ UNCHANGED <<vm_objects, next_id>>
    /\ CallerFrame

\* line 69: list(self._vm_objects.items())
CallerCopy(t) ==
    /\ thr[t].pc = "copy"
    /\ thr' = [thr EXCEPT ![t] =
                 [CallerGoto(thr[t], "loop") EXCEPT !.items = vm_objects, !.i = 1]]
    /\ UNCHANGED <<vm_list, vm_objects, next_id>>
    /\ CallerFrame

\* the entry of the copied items caller k stands at: its key, its wrapper
EntryName(k) == k.items[k.i][1]
EntryVM(k) == k.items[k.i][2]

\* the loop of line 69 is over: refresh_cache returns, to its caller or to
\* line 93
CallerLoopEnd(k) ==
    IF k.op = "refresh_cache" THEN CallerReturn(k, 0)
    ELSE [CallerGoto(k, "in93") EXCEPT !.items = EmptyDict, !.i = 0,
                                       !.new_vm_list = EmptyDict]

\* line 70, read from the snapshot vl that is current now
CallerTest70(k, vl) ==
    IF ~vl.cached THEN CallerRaise(k, "TypeError", 70)
    ELSE IF ~DictHas(vl.dict, EntryVM(k).name) THEN CallerGoto(k, "del72")
    ELSE CallerGoto(k, "test73")

\* line 69, next entry, and line 70
CallerLoop(t) ==
    /\ thr[t].pc = "loop"
    /\ thr' = [thr EXCEPT ![t] =
                 IF thr[t].i > Len(thr[t].items) THEN CallerLoopEnd(thr[t])
                 ELSE CallerTest70(thr[t], vm_list)]
    /\ UNCHANGED <<vm_list, vm_objects, next_id>>
    /\ CallerFrame

\* lines 73 and 77, read from the snapshot vl that is current now
CallerTest73(k, vl) ==
    IF ~vl.cached THEN CallerRaise(k, "TypeError", 73)
    ELSE IF ~DictHas(vl.dict, EntryVM(k).name)
    THEN CallerRaise(k, "KeyError", 73)
    ELSE IF ~DictHas(DictGet(vl.dict, EntryVM(k).name), s_class)
    THEN CallerRaise(k, "KeyError", 73)
    ELSE IF EntryVM(k).class # DictGet(DictGet(vl.dict, EntryVM(k).name), s_class)
    THEN CallerGoto(k, "del75")
    ELSE IF EntryName(k) # EntryVM(k).name THEN CallerGoto(k, "set79")
    ELSE [CallerGoto(k, "loop") EXCEPT !.i = k.i + 1]

CallerElif(t) ==
    /\ thr[t].pc = "test73"
    /\ thr' = [thr EXCEPT ![t] = CallerTest73(thr[t], vm_list)]
    /\ UNCHANGED <<vm_list, vm_objects, next_id>>
    /\ CallerFrame

\* the line of the statement `at`
LineOf(at) == IF at = "del72" THEN 72 ELSE IF at = "del75" THEN 75 ELSE 80

\* lines 72, 75, 79 and 80: the table is changed as decided
CallerApply(t) ==
    /\ thr[t].pc \in {"del72", "del75", "set79", "del80"}
    /\ IF thr[t].pc = "set79"
       THEN /\ vm_objects' = DictSet(vm_objects, EntryVM(thr[t]).name,
                                     EntryVM(thr[t]))
            /\ thr' = [thr EXCEPT ![t] = CallerGoto(thr[t], "del80")]
       ELSE IF ~DictHas(vm_objects, EntryName(thr[t]))
       THEN /\ vm_objects' = vm_objects
            /\ thr' = [thr EXCEPT ![t] =
                         CallerRaise(thr[t], "KeyError", LineOf(thr[t].pc))]
       ELSE /\ vm_objects' = DictDel(vm_objects, EntryName(thr[t]))
            /\ thr' = [thr EXCEPT ![t] =
                         [CallerGoto(thr[t], "loop") EXCEPT !.i = thr[t].i + 1]]
    /\ UNCHANGED <<vm_list, next_id>>
    /\ CallerFrame

\* line 93, then lines 83-84
CallerIn93(k, vl) ==
    IF ~vl.cached THEN CallerRaise(k, "TypeError", 93)
    ELSE IF ~DictHas(vl.dict, k.item) THEN CallerRaise(k, "KeyError", 84)
    ELSE CallerGoto(k, "test85")

CallerIn(t) ==
    /\ thr[t].pc = "in93"
    /\ thr' = [thr EXCEPT ![t] = CallerIn93(thr[t], vm_list)]
    /\ UNCHANGED <<vm_list, vm_objects, next_id>>
    /\ CallerFrame

\* line 85
CallerStored(t) ==
    /\ thr[t].pc = "test85"
    /\ thr' = [thr EXCEPT ![t] =
                 CallerGoto(thr[t], IF DictHas(vm_objects, thr[t].item)
                                    THEN "ret89" ELSE "read87")]
    /\ UNCHANGED <<vm_list, vm_objects, next_id>>
    /\ CallerFrame

\* lines 86-87, e the class found for the snapshot's `class`
CallerFound(k, e) ==
    IF e.exc # NoExc THEN CallerRaise(k, e.exc, 86)
    ELSE [CallerGoto(k, "store88") EXCEPT !.cls = e.cls]

\* lines 86-87, read from the snapshot vl that is current now
CallerRead87(k, vl) ==
    IF ~vl.cached THEN CallerRaise(k, "TypeError", 87)
    ELSE IF ~DictHas(vl.dict, k.item) THEN CallerRaise(k, "KeyError", 87)
    ELSE IF ~DictHas(DictGet(vl.dict, k.item), s_class)
    THEN CallerRaise(k, "KeyError", 87)
    ELSE CallerFound(k, get_entry_point_one(
                            DictGet(DictGet(vl.dict, k.item), s_class)))

CallerClass(t) ==
    /\ thr[t].pc = "read87"
    /\ thr' = [thr EXCEPT ![t] = CallerRead87(thr[t], vm_list)]
    /\ UNCHANGED <<vm_list, vm_objects, next_id>>
    /\ CallerFrame

\* line 88
CallerStore(t) ==
    /\ thr[t].pc = "store88"
    /\ vm_objects' = DictSet(vm_objects, thr[t].item,
                             Wrapper(next_id + 1, thr[t].cls, thr[t].item))
    /\ next_id' = next_id + 1
    /\ thr' = [thr EXCEPT ![t] = CallerGoto(thr[t], "ret89")]
    /\ UNCHANGED vm_list
    /\ CallerFrame

\* line 89
CallerGet(t) ==
    /\ thr[t].pc = "ret89"
    /\ thr' = [thr EXCEPT ![t] =
                 IF ~DictHas(vm_objects, thr[t].item)
                 THEN CallerRaise(thr[t], "KeyError", 89)
                 ELSE CallerReturn(thr[t], DictGet(vm_objects, thr[t].item).id)]
    /\ UNCHANGED <<vm_list, vm_objects, next_id>>
    /\ CallerFrame

\* the caller takes the outcome of its operation and is free for the next
CallerResume(t) ==
    /\ thr[t].pc \in {"returned", "raised"}
    /\ thr' = [thr EXCEPT ![t] = IdleCaller]
    /\ UNCHANGED <<vm_list, vm_objects, next_id>>
    /\ CallerFrame

\* ------------------------------------------------------------------------
\* Specifications
\* ------------------------------------------------------------------------
\* an application object of connection type c, its collection just
\* constructed (lines 42-45), no call made yet
Constructed(c) ==
    /\ vm_list = NoneList
    /\ vm_objects = EmptyDict
    /\ next_id = 0
    /\ op = Op("init", FALSE, EmptyStr)
    /\ result = Result(NoExc, 0)
    /\ reply = NoReply
    /\ hist = History(FALSE, "no")
    /\ conn = c
    /\ argv = << >>
    /\ pc = Idle
    /\ call = NoCall
    /\ wire = EmptyStr
    /\ sock = "none"
    /\ buf = EmptyStr
    /\ diag = EmptyStr
    /\ unclosed = 0
    /\ cres = NotCalled
    /\ pool_drivers = NoDrivers
    /\ drivers_data = None
    /\ pop = PoolOp("init", EmptyStr, EmptyStr, EmptyDict)
    /\ pres = Result(NoExc, 0)
    /\ pcalls = << >>
    /\ preply = NoReply
    /\ thr = [t \in Callers |-> IdleCaller]

\* a QubesLocal application object, assert statements enabled
Init == Constructed("socket") /\ debug = TRUE

\* the collection and its callers
Next ==
    \/ ClearCache
    \/ \E force \in BOOLEAN : RefreshCache(force, Listings)
    \/ \E item \in Names : Contains(item, Listings)
    \/ Keys(Listings)
    \/ \E item \in Names : GetItem(item, Listings)
    \/ Iter(Listings)
    \/ \E key \in Names, new_name \in Names : Rename(key, new_name)

Spec == Init /\ [][Next]_vars

\* the listing parser: refreshes over every payload of ParseListings
NextParse ==
    \/ ClearCache
    \/ \E force \in BOOLEAN : RefreshCache(force, ParseListings)
    \/ Keys(ParseListings)

SpecParse == Init /\ [][NextParse]_vars

\* the transports, one call at a time
NextCall ==
    \/ \E c \in Calls : LocalConnect(c)
    \/ LocalSendField
    \/ LocalSendPayload
    \/ LocalShutdown
    \/ LocalRead
    \/ LocalReturn
    \/ CollectGarbage
    \/ \E c \in Calls : RemotePopen(c)
    \/ RemoteCommunicate

\* a QubesLocal or a QubesRemote application object
InitCall == \E c \in {"socket", "qrexec"} : Constructed(c) /\ debug = TRUE

SpecCall == InitCall /\ [][NextCall]_vars

\* the pool-driver cache and the pool calls
NextPool ==
    \/ PoolDrivers
    \/ \E driver \in DriverNames : PoolDriverParameters(driver)
    \/ \E name \in PoolNames, kwargs \in Options : AddPool(name, s_f, kwargs)
    \/ \E name \in PoolNames : RemovePool(name)

\* a QubesLocal application object, run with or without -O
InitPool == Constructed("socket") /\ debug \in BOOLEAN

SpecPool == InitPool /\ [][NextPool]_vars

\* the listings whose records all carry `class`
ClassedListings ==
    Listings \ {EncodeListing(<<b_NoClass, a_Disp>>), EncodeListing(<<a_NoClass>>)}

\* the collection and its callers, every listed record carrying `class`
NextClassed ==
    \/ ClearCache
    \/ \E force \in BOOLEAN : RefreshCache(force, ClassedListings)
    \/ \E item \in Names : Contains(item, ClassedListings)
    \/ Keys(ClassedListings)
    \/ \E item \in Names : GetItem(item, ClassedListings)
    \/ Iter(ClassedListings)
    \/ \E key \in Names, new_name \in Names : Rename(key, new_name)

SpecClassed == Init /\ [][NextClassed]_vars

\* two callers sharing one collection
NextConc ==
    \E t \in Callers :
        \/ BeginRefresh(t)
        \/ \E item \in ConcNames : BeginGet(t, item)
        \/ CallerClearCache(t)
        \/ CallerGuard(t)
        \/ CallerList(t)
        \/ CallerInstall(t)
        \/ CallerCopy(t)
        \/ CallerLoop(t)
        \/ CallerElif(t)
        \/ CallerApply(t)
        \/ CallerIn(t)
        \/ CallerStored(t)
        \/ CallerClass(t)
        \/ CallerStore(t)
        \/ CallerGet(t)
        \/ CallerResume(t)

SpecConc == Init /\ [][NextConc]_vars

\* ------------------------------------------------------------------------
\* Properties
\* ------------------------------------------------------------------------
\* the snapshot vl lists n with a `class` property
HasClass(vl, n) ==
    IF DictHas(vl.dict, n) THEN DictHas(DictGet(vl.dict, n), s_class) ELSE FALSE

\* the `class` the snapshot vl gives for n
ClassIn(vl, n) == DictGet(DictGet(vl.dict, n), s_class)

\* the identities of the wrappers stored in the instance table
StoredIds(objs) == {objs[i][2].id : i \in 1..Len(objs)}

\* the step is the operation `name`
IsOp(name) == op'.name = name

\* the step is a refresh_cache(force=True) that installs the listing it
\* received, the snapshot before it being the one of a forced refresh too
ForcedAfterForced ==
    /\ vm_list.cached
    /\ hist.forced
    /\ IsOp("refresh_cache")
    /\ op'.force
    /\ reply'.kind = "return"
    /\ ParseVMList(reply'.data).exc = NoExc

\* what get(n) gives in the state after the step
GetAfter(n) == getitem(vm_list', vm_objects', next_id', n, NoReply)

\* C1 for the name n, materialized before the step and listed with a
\* `class` on both sides of it
StableFor(n) ==
    IF ClassIn(vm_list, n) = ClassIn(vm_list', n)
    THEN /\ GetAfter(n).exc = NoExc
         /\ GetAfter(n).val = DictGet(vm_objects, n).id
    ELSE /\ GetAfter(n).exc = NoExc
         /\ GetAfter(n).val # DictGet(vm_objects, n).id
         /\ DictGet(vm_objects, n).id \notin StoredIds(vm_objects')

\* C1: across two successive forced refreshes, get(name) returns the same
\* wrapper instance when the name keeps its `class`, and a new instance,
\* the old one stored under no key of the instance table, when its `class`
\* differs.  The code does not keep this: a record without `class` (C7)
\* aborts the reconciliation before it reaches the name.
IdentityStability ==
    [][ForcedAfterForced =>
        \A n \in Names :
            (HasClass(vm_list, n) /\ HasClass(vm_list', n) /\ DictHas(vm_objects, n))
                => StableFor(n)]_vars

\* the step is a refresh_cache(force=False)
LazyRefresh == IsOp("refresh_cache") /\ ~op'.force

\* the step made no list call and left the snapshot and the instance table
\* as they were
NoOp ==
    /\ reply'.kind = "none"
    /\ vm_list' = vm_list
    /\ vm_objects' = vm_objects

\* C2 as stated: a refresh_cache(force=False) that follows another one, no
\* forced refresh in between, makes no list call and changes neither the
\* snapshot nor the instance table.  Refuted: the first call may have
\* raised, or clear_cache may have dropped the snapshot in between.
LazyRefreshTwice ==
    [][(hist.lazy # "no" /\ LazyRefresh) => NoOp]_vars

\* C2, amended: once a refresh_cache(force=False) has returned, a further
\* one, with no forced refresh and no invalidation of the snapshot in
\* between, makes no list call, raises nothing and changes neither the
\* snapshot nor the instance table; any refresh_cache(force=False) makes a
\* list call exactly when the collection is Uncached.
LazyRefreshIdempotent ==
    [][LazyRefresh =>
        /\ (reply'.kind # "none") = ~vm_list.cached
        /\ hist.lazy \in {"valid", "again"} => (NoOp /\ result'.exc = NoExc)]_vars

\* C2: a second refresh_cache(force=False) has just returned, on a snapshot
\* with entries and a table with wrappers
LazyRefreshedAgain ==
    /\ op.name = "refresh_cache"
    /\ ~op.force
    /\ hist.lazy = "again"
    /\ reply.kind = "none"
    /\ vm_list.cached
    /\ vm_list.dict # EmptyDict
    /\ vm_objects # EmptyDict

\* the operations that begin with self.refresh_cache()
Lookups == {"contains", "iter", "keys", "getitem"}

\* the refresh the step began with, computed again from the state before it
\* and the answer its list call got
RefreshOfStep == refresh_cache(vm_list, vm_objects, next_id, op'.force, reply')

\* the step is a refresh, explicit or at the head of a lookup, that made its
\* list call and ended without an exception
SuccessfulRefresh ==
    /\ op'.name \in Lookups \cup {"refresh_cache"}
    /\ reply'.kind = "return"
    /\ RefreshOfStep.exc = NoExc

\* C3: the collection starts Uncached; it becomes Cached only by a
\* successful refresh, Uncached only by clear_cache (called directly or by
\* a rename), and its snapshot is replaced only by a forced refresh; a
\* lookup (contains, iterate, keys, get) makes one list call when the
\* collection is Uncached and none when it is Cached.  The code does not
\* keep the first transition: a refresh that meets a record without `class`
\* (C7) installs the snapshot and then raises.
CacheStateMachine ==
    /\ ~vm_list.cached
    /\ [][/\ (~vm_list.cached /\ vm_list'.cached) => SuccessfulRefresh
          /\ (vm_list.cached /\ ~vm_list'.cached)
                => op'.name \in {"clear_cache", "rename"}
          /\ (vm_list.cached /\ vm_list'.cached /\ vm_list' # vm_list)
                => (IsOp("refresh_cache") /\ op'.force)
          /\ op'.name \in Lookups
                => ((reply'.kind # "none") = ~vm_list.cached)]_vars

\* the names of the records recs
RecordNames(recs) == {recs[i].name : i \in 1..Len(recs)}

\* listings of records of ParseRecords, one per line, no name listed twice
WellFormedListings ==
    {recs \in SeqsUpTo(ParseRecords, MaxLines) :
        \A i, j \in 1..Len(recs) : recs[i].name = recs[j].name => i = j}

\* the snapshot and keys() give the records recs back
Snapshots(recs) ==
    /\ result.exc = NoExc
    /\ vm_list.cached
    /\ Len(vm_list.dict) = Len(recs)
    /\ keys(vm_list, vm_objects, next_id, NoReply).val = RecordNames(recs)
    /\ op.name = "keys" => result.val = RecordNames(recs)
    /\ \A i \in 1..Len(recs) :
          /\ DictHas(vm_list.dict, recs[i].name)
          /\ DictGet(vm_list.dict, recs[i].name) = recs[i].props

\* C4: when the list call of a refresh (explicit, or the one keys() begins
\* with) returned a well-formed listing, keys() gives exactly the names of
\* its records and the snapshot maps each name to exactly the key=value
\* pairs of its line, a value holding whatever follows the first '='.
WellFormedListingParsed ==
    \A recs \in WellFormedListings :
        (reply.kind = "return" /\ reply.data = EncodeListing(recs))
            => Snapshots(recs)

\* C4: a listing of two records was parsed, one of them with two properties
\* and a value that holds a '='
TwoRecordsParsed ==
    /\ op.name = "refresh_cache"
    /\ reply.kind = "return"
    /\ reply.data = EncodeListing(<<a_App,
                         Record(s_b, <<Prop(s_class, s_DispVM), Prop(s_k, s_vw)>>)>>)
    /\ vm_list.cached
    /\ DictKeys(vm_list.dict) = {s_a, s_b}
    /\ DictGet(DictGet(vm_list.dict, s_b), s_k) = s_vw

\* the list call of the step failed to connect
ConnectFailed == reply'.kind = "raise" /\ reply'.exc \in ConnectErrors

\* C5: when the local transport cannot connect, the list call raises a
\* ConnectionError, the refresh (explicit, or at the head of a lookup)
\* raises that same error, and the snapshot and the instance table are what
\* they were.  The code does not keep the first part: an absent socket path
\* makes connect() raise FileNotFoundError, which line 192 re-raises as it
\* is.
ConnectFailurePropagated ==
    [][(conn = "socket" /\ ConnectFailed) =>
        /\ reply'.exc \in ConnectionErrorTypes
        /\ result'.exc = reply'.exc
        /\ vm_list' = vm_list
        /\ vm_objects' = vm_objects]_vars

\* the payload holds a line that is no record: a name alone, a token
\* without '=', an empty line, an empty token, a byte that is not ASCII
Malformed(data) ==
    \E ls \in SeqsUpTo(ParseLineSet, MaxLines) :
        /\ data = EncodeLines(ls)
        /\ \E i \in 1..Len(ls) : ls[i] \in BadLines

\* C6: a refresh whose listing holds a malformed line fails with
\* ProtocolError and leaves the snapshot it held.  The code does not raise
\* ProtocolError: the tuple unpacking of line 62 and the dict() of line 65
\* raise ValueError, decode() raises UnicodeDecodeError.
MalformedLineRejected ==
    [][(reply'.kind = "return" /\ Malformed(reply'.data)) =>
        /\ result'.exc = "ProtocolError"
        /\ vm_list' = vm_list]_vars

\* every entry of the snapshot vl carries a `class`
AllClassed(vl) == \A i \in 1..Len(vl.dict) : DictHas(vl.dict[i][2], s_class)

\* the list call of the step returned a listing that parses and holds a
\* record without `class`
ClasslessListing ==
    /\ reply'.kind = "return"
    /\ ParseVMList(reply'.data).exc = NoExc
    /\ ~AllClassed(SomeList(ParseVMList(reply'.data).new_vm_list))

\* C7: a listing with a record that lacks `class` makes the refresh fail
\* with ProtocolError, so that every entry of a snapshot carries a `class`
\* and get(name) raises KeyError for an absent name only.  The code never
\* checks for `class`: the record is installed, and KeyError comes out of
\* line 74 (reconciliation) or line 87 (get) when the property is read.
ClassRequired ==
    [][/\ ClasslessListing => result'.exc = "ProtocolError"
       /\ vm_list'.cached => AllClassed(vm_list')
       /\ (IsOp("getitem") /\ result'.exc = "KeyError")
             => ~DictHas(vm_list'.dict, op'.item)]_vars

\* the bytes of an optional value: none when it is absent
Bytes(x) == IF x = None THEN EmptyStr ELSE x[1]

\* the first n request fields, each followed by one null byte
RECURSIVE Framed(_, _)
Framed(fields, n) ==
    IF n = 0 THEN EmptyStr
    ELSE Framed(fields, n - 1) \o Bytes(fields[n]) \o <<NUL>>

\* the first n request fields, each one that is present followed by one null
\* byte, an absent one leaving no trace
RECURSIVE FramedSkipping(_, _)
FramedSkipping(fields, n) ==
    IF n = 0 THEN EmptyStr
    ELSE FramedSkipping(fields, n - 1) \o
         (IF fields[n] = None THEN EmptyStr ELSE fields[n][1] \o <<NUL>>)

\* the local call has written its whole request
RequestWritten ==
    /\ conn = "socket"
    /\ \/ pc.at \in {"shutdown", "read", "parse"}
       \/ pc = Idle /\ cres.decoded

\* C8 as stated: the request is 'dom0', method, destination and argument,
\* each followed by one null byte, an absent argument being skipped
\* altogether, then the payload.  Refuted: line 198 writes the null byte of
\* the argument whether or not there is an argument.
AbsentFieldSkipped ==
    RequestWritten =>
        wire = FramedSkipping(Fields(call), 4) \o Bytes(call.payload)

\* C8, amended: the request is the four fields 'dom0', method, destination,
\* argument in this order, each followed by exactly one null byte, an absent
\* argument being written as an empty field (its null byte alone); then the
\* payload, raw, if there is one; nothing else.  While the fields are being
\* written, the bytes on the socket are the fields written so far.
RequestFramed ==
    /\ (conn = "socket" /\ pc.at = "send")
          => wire = Framed(Fields(call), pc.i - 1)
    /\ (conn = "socket" /\ pc.at = "payload")
          => wire = Framed(Fields(call), 4)
    /\ RequestWritten
          => wire = s_dom0 \o <<NUL>> \o call.method \o <<NUL>> \o call.dest
                        \o <<NUL>> \o Bytes(call.arg) \o <<NUL>>
                        \o Bytes(call.payload)

\* C8: a call without argument and with a payload has written its request
RequestWithoutArgumentWritten ==
    /\ conn = "socket"
    /\ pc.at = "shutdown"
    /\ call.arg = None
    /\ call.payload # None
    /\ wire = s_dom0 \o <<NUL>> \o s_List \o <<NUL>> \o call.dest
                  \o <<NUL, NUL>> \o call.payload[1]

\* the failure of the last call carries the helper's diagnostic text
CarriesDiagnostic ==
    /\ Len(cres.msg) >= Len(diag)
    /\ SubSeq(cres.msg, Len(cres.msg) - Len(diag) + 1, Len(cres.msg)) = diag

\* C9: when the helper of the remote transport has exited with a non-zero
\* code, the call has failed with a ConnectionError that carries the
\* helper's diagnostic text, and the helper's standard output was not given
\* to the response decoder.  The code does not raise ConnectionError: line
\* 226 raises the generic QubesException.
HelperFailureIsConnectionError ==
    sock = "exited_1" =>
        /\ cres.exc \in ConnectionErrorTypes
        /\ CarriesDiagnostic
        /\ ~cres.decoded

\* C10: when no call is in progress, no socket and no helper process of a
\* finished call is left open.  The code does not keep this for the local
\* transport: QubesLocal.qubesd_call never closes its socket, whether it
\* returns or raises, so the socket stays open until the interpreter happens
\* to finalize it.
TransportTornDown ==
    pc = Idle =>
        /\ unclosed = 0
        /\ sock \notin {"connected", "shut_wr", "process"}

\* the items of the keyword arguments kw, their order forgotten
Items(kw) == {kw[i] : i \in 1..Len(kw)}

\* the keys of kw come in strictly ascending order
Ascending(kw) == \A i \in 1..Len(kw) - 1 : StrLess(kw[i][1], kw[i + 1][1])

\* `name=<name>` and then one `<key>=<value>` line per item of kw, in the
\* order of kw, as UTF-8
PoolPayload(name, kw) ==
    Utf8(EncodeLines(<<s_name \o <<EQ>> \o name>>)
         \o EncodeLines([i \in 1..Len(kw) |-> kw[i][1] \o <<EQ>> \o kw[i][2]]))

\* the add_pool that ran last made the one call `made`
AddPoolCalled(made) ==
    /\ made.dest = s_dom0
    /\ made.method = s_Add
    /\ made.arg = Some(pop.driver)
    /\ made.payload # None
    /\ \E kw \in Options :
          /\ Items(kw) = Items(pop.kwargs)
          /\ Ascending(kw)
          /\ made.payload = Some(PoolPayload(pop.item, kw))
    /\ \A kw \in Options :
          Items(kw) = Items(pop.kwargs)
              => add_pool_payload(pop.item, kw) = made.payload[1]
    /\ (pop.item = <<"p">> /\ Items(pop.kwargs) = {<<s_b, <<"2">>>>, <<s_a, <<"1">>>>})
          => made.payload[1] = <<"n", "a", "m", "e", "=", "p", "\n",
                                  "a", "=", "1", "\n", "b", "=", "2", "\n">>

\* C11: add_pool makes exactly one call, 'mgmt.pool.Add' to 'dom0' with the
\* driver as argument; its payload is `name=<name>\n` followed by one
\* `<key>=<value>\n` line per option, keys ascending, and is the same for
\* every order in which the same options are given; options b="2", a="1"
\* give `name=p\na=1\nb=2\n`.
AddPoolPayloadSorted ==
    pop.name = "add_pool" => (Len(pcalls) = 1 /\ AddPoolCalled(pcalls[1]))

\* C11: add_pool('p', 'f', b='2', a='1') has made its call
AddPoolCalledUnordered ==
    /\ pop.name = "add_pool"
    /\ pop.item = <<"p">>
    /\ pop.kwargs = <<<<s_b, <<"2">>>>, <<s_a, <<"1">>>>>>
    /\ Len(pcalls) = 1
    /\ pcalls[1].payload = Some(<<"n", "a", "m", "e", "=", "p", "\n",
                                  "a", "=", "1", "\n", "b", "=", "2", "\n">>)

\* the step is an access to the driver cache
DriverAccess == pop'.name \in {"pool_drivers", "pool_driver_parameters"}

\* the step made no 'mgmt.pool.ListDrivers' call
NoListDrivers == \A i \in 1..Len(pcalls') : pcalls'[i].method # s_ListDrivers

\* listings of distinct drivers
DriverRecordLists ==
    {recs \in SeqsUpTo({d_file, d_lvm}, 2) :
        \A i, j \in 1..Len(recs) : recs[i].name = recs[j].name => i = j}

\* the access of the step returned what the drivers recs say
ReturnedFrom(recs) ==
    /\ pop'.name = "pool_drivers"
          => (pres'.exc = NoExc /\ pres'.val = RecordNames(recs))
    /\ pop'.name = "pool_driver_parameters"
          => \A i \in 1..Len(recs) :
                recs[i].name = pop'.driver
                    => (pres'.exc = NoExc /\ pres'.val = recs[i].options)

\* the step ran on a filled cache: it lists nothing, leaves the cache as it
\* is, and an access returns the drivers of the response the cache was
\* filled from
HeldCache ==
    /\ NoListDrivers
    /\ pool_drivers' = pool_drivers
    /\ drivers_data' = drivers_data
    /\ drivers_data # None
    /\ DriverAccess =>
          /\ pool_drivers.dict =
                DriverLines(SplitLines(drivers_data[1]), 1, EmptyDict).drivers
          /\ \A recs \in DriverRecordLists :
                drivers_data[1] = EncodeDrivers(recs) => ReturnedFrom(recs)

\* C12: an access to pool_drivers or pool_driver_parameters on an empty
\* cache makes exactly one 'mgmt.pool.ListDrivers' call; once an access has
\* filled the cache, no pool operation makes that call again, the cache
\* stays what it is, and every access returns the driver names and the
\* parameter lists, in order, of the response the cache was filled from.
PoolDriversCachedOnce ==
    [][/\ (DriverAccess /\ ~pool_drivers.cached)
             => pcalls' = <<Call(s_dom0, s_ListDrivers, None, None)>>
       /\ (pool_drivers'.cached /\ ~pool_drivers.cached)
             => (preply'.kind = "return" /\ drivers_data' = Some(preply'.data))
       /\ pool_drivers.cached => HeldCache]_vars

\* C12: a later access was answered from the cache, filled from a response
\* listing two drivers
AnsweredFromCache ==
    /\ pop.name = "pool_driver_parameters"
    /\ pop.driver = s_f
    /\ pool_drivers.cached
    /\ pcalls = << >>
    /\ drivers_data = Some(EncodeDrivers(<<d_lvm, d_file>>))
    /\ pres = Result(NoExc, <<s_x, s_y>>)

\* the step's list call, when it made one, returned a listing that parsed
ListedIfCalled ==
    /\ reply'.kind # "raise"
    /\ reply'.kind = "return" => ParseVMList(reply'.data).exc = NoExc

\* get(n) of the step, r the outcome of the refresh it began with, found n
\* listed: it returned the wrapper r stores under n, the table unchanged,
\* or it created one wrapper of the snapshot's class, stored under n
Materialized(r, n) ==
    /\ result'.exc = NoExc
    /\ IF DictHas(r.vm_objects, n)
       THEN /\ result'.val = DictGet(r.vm_objects, n).id
            /\ vm_objects' = r.vm_objects
       ELSE /\ result'.val \notin StoredIds(r.vm_objects)
            /\ HasClass(r.vm_list, n)
            /\ vm_objects' = DictSet(r.vm_objects, n,
                                 Wrapper(result'.val, ClassIn(r.vm_list, n), n))
    /\ GetAfter(n).exc = NoExc
    /\ GetAfter(n).val = result'.val
    /\ GetAfter(n).vm_objects = vm_objects'

\* get(n) of the step, r the outcome of the refresh it began with
RefreshThenLookup(r, n) ==
    /\ vm_list' = r.vm_list
    /\ (result'.exc = "KeyError") = ~DictHas(r.vm_list.dict, n)
    /\ result'.exc = "KeyError" => vm_objects' = r.vm_objects
    /\ DictHas(r.vm_list.dict, n) => Materialized(r, n)

\* C13: get(name) is refresh-then-lookup: unless the list call or the parse
\* fails, it raises KeyError exactly when the name is not in the snapshot
\* after the non-forced refresh, adding nothing to the instance table;
\* otherwise it returns the wrapper stored under the name or creates and
\* stores one of the snapshot's class, and a repeated get returns the same
\* instance.  The code does not keep this: for a listed name whose record
\* has no `class` (C7) it raises KeyError too.
GetIsRefreshThenLookup ==
    [][(IsOp("getitem") /\ ListedIfCalled)
          => RefreshThenLookup(RefreshOfStep, op'.item)]_vars

\* the names a listing payload gives: what precedes the first space of
\* each of its lines
ListedNames(data) ==
    {Split1(SplitLines(data)[i], SP)[1] : i \in 1..Len(SplitLines(data))}

\* the step made a list call that returned a listing that parsed
ListedAndParsed ==
    /\ reply'.kind = "return"
    /\ ParseVMList(reply'.data).exc = NoExc

\* C14 as stated: whenever the collection is Cached, the keys of its
\* snapshot are among the names returned by the most recent list call that
\* returned.  Refuted: a forced refresh whose list call returns a listing
\* that fails to parse leaves the older snapshot in place.
SnapshotOfLastReturnedCall ==
    [][(reply'.kind = "return" /\ vm_list'.cached)
          => DictKeys(vm_list'.dict) \subseteq ListedNames(reply'.data)]_vars

\* C14, amended: whenever the collection is Cached, the keys of its
\* snapshot are among the names of the most recent list call whose listing
\* parsed: a step that made such a call leaves a snapshot keyed by names of
\* that listing, and any other step (no list call, a call that raised, a
\* listing that failed to parse, clear_cache) leaves the snapshot as it was
\* or drops it.
SnapshotOfLastParsedListing ==
    [][IF ListedAndParsed
       THEN /\ vm_list'.cached
            /\ DictKeys(vm_list'.dict) \subseteq ListedNames(reply'.data)
       ELSE vm_list' = vm_list \/ ~vm_list'.cached]_vars

\* C14: a forced refresh got a listing that failed to parse, and the
\* collection is still Cached with a key the listing does not name
SnapshotKeptOverFailedParse ==
    /\ op.name = "refresh_cache"
    /\ op.force
    /\ reply.kind = "return"
    /\ ParseVMList(reply.data).exc # NoExc
    /\ result.exc = "ValueError"
    /\ vm_list.cached
    /\ ~(DictKeys(vm_list.dict) \subseteq ListedNames(reply.data))

\* the VM listing received by the last operation was held to the rule: not
\* ending with a line terminator it was rejected, being just a line
\* terminator it gave an empty snapshot without error
VMListingTerminated ==
    (op.name \in Lookups \cup {"refresh_cache"} /\ reply.kind = "return")
        => /\ ~EndsWithNL(reply.data) => result.exc # NoExc
           /\ reply.data = <<NL>>
                 => (result.exc = NoExc /\ vm_list = SomeList(EmptyDict))

\* the same for the pool-driver listing
DriverListingTerminated ==
    (pop.name \in {"pool_drivers", "pool_driver_parameters"}
            /\ preply.kind = "return")
        => /\ ~EndsWithNL(preply.data)
                 => (pres.exc # NoExc /\ ~pool_drivers.cached)
           /\ preply.data = <<NL>>
                 => (pres.exc \in {NoExc, "KeyError"}
                        /\ pool_drivers = SomeDrivers(EmptyDict))

\* C15: a VM listing or a pool-driver listing that does not end with a line
\* terminator is rejected, and one that is just a line terminator gives an
\* empty collection without error.  The code does not keep this:
\* refresh_cache accepts an unterminated listing and raises ValueError on
\* the listing that is just a line terminator.
ListingTermination == VMListingTerminated /\ DriverListingTerminated

\* caller t is between the installation of a snapshot and the end of the
\* reconciliation of the table against it (lines 69-80)
Reconciling(t) ==
    thr[t].pc \in {"copy", "loop", "test73", "del72", "del75", "set79", "del80"}

\* no caller is inside an operation
Quiescent == \A t \in Callers : thr[t].pc \in {"idle", "returned", "raised"}

\* an operation failed only by a failure of its list call, or, for get, by
\* the KeyError of line 84 for a name that is not listed
FailedByCallOnly ==
    \A t \in Callers :
        thr[t].pc = "raised"
            => \/ thr[t].exc \in CallErrors
               \/ thr[t].exc = "KeyError" /\ thr[t].line = 84

\* every key of the table is listed in the snapshot, with the class of the
\* wrapper stored under it
TableAgrees ==
    \A i \in 1..Len(vm_objects) :
        /\ HasClass(vm_list, vm_objects[i][1])
        /\ vm_objects[i][2].class = ClassIn(vm_list, vm_objects[i][1])

\* C16: with two callers interleaving refresh_cache(force=True),
\* clear_cache and get on one collection, the reconciliation of the table
\* runs under mutual exclusion (no caller changes the snapshot or the table
\* while another reconciles), no operation fails for a reason other than a
\* call failure, and once the callers are done a Cached collection's table
\* holds only keys of the snapshot, with wrappers of the snapshot's class.
\* The code does not keep this: it takes no lock.
ConcurrentReconciliationSafe ==
    /\ \A t, u \in Callers : (Reconciling(t) /\ Reconciling(u)) => t = u
    /\ FailedByCallOnly
    /\ (Quiescent /\ vm_list.cached) => TableAgrees

\* the wrapper w, stored under key k before the refresh with outcome r, is
\* stored under its live name after it, and under k no more; get of its
\* live name returns it and creates nothing
Rekeyed(r, k, w) ==
    /\ DictHas(r.vm_objects, w.name)
    /\ DictGet(r.vm_objects, w.name) = w
    /\ DictHas(r.vm_objects, k) => DictGet(r.vm_objects, k).id # w.id
    /\ getitem(r.vm_list, r.vm_objects, r.next_id, w.name, NoReply).exc = NoExc
    /\ getitem(r.vm_list, r.vm_objects, r.next_id, w.name, NoReply).val = w.id
    /\ getitem(r.vm_list, r.vm_objects, r.next_id, w.name, NoReply).next_id
          = r.next_id

\* the wrapper w is stored under the key k, which is not its live name, and
\* the snapshot vl lists its live name with its class
RenamedAndListed(vl, k, w) ==
    /\ w.name # k
    /\ HasClass(vl, w.name)
    /\ ClassIn(vl, w.name) = w.class

\* C17 for the refresh with outcome r
RenamesReconciled(r) ==
    r.installed =>
        \A i \in 1..Len(vm_objects) :
            RenamedAndListed(r.vm_list, vm_objects[i][1], vm_objects[i][2])
                => Rekeyed(r, vm_objects[i][1], vm_objects[i][2])

\* C17: a refresh re-keys a wrapper stored under a key k that is not its
\* live name n, when the new snapshot lists n with the wrapper's class: the
\* same instance is then stored under n, k maps to it no more, and get(n)
\* returns it without creating a wrapper.  The code does not keep this: a
\* record without `class` met earlier in the loop (C7) ends the
\* reconciliation before the wrapper is reached, and two wrappers that
\* exchanged their names overwrite and delete one another.
RenameRekeys ==
    [][op'.name \in Lookups \cup {"refresh_cache"}
          => RenamesReconciled(RefreshOfStep)]_vars

\* the step begins a call: the socket of line 188 is created
CallBegins == pc = Idle /\ wire' = EmptyStr /\ buf' = EmptyStr

\* the step writes to the socket: the connection is established, and not
\* half-closed
WritesWhileConnected ==
    wire' # wire
        => \/ CallBegins
           \/ sock = "connected" /\ sock' = "connected"
                 /\ pc.at \in {"send", "payload"}

\* the step half-closes the write side: the four fields and the payload
\* have all been written
HalfClosesAfterRequest ==
    (sock # "shut_wr" /\ sock' = "shut_wr")
        => /\ pc.at = "shutdown"
           /\ sock = "connected"
           /\ wire = Framed(Fields(call), 4) \o Bytes(call.payload)
           /\ wire' = wire
           /\ buf' = EmptyStr

\* the step reads response bytes: the write side has been half-closed
ReadsAfterHalfClose ==
    buf' # buf => (CallBegins \/ (sock = "shut_wr" /\ pc.at = "read"))

\* the step decodes: it is the last step of the call and decodes the whole
\* response read; nothing is decoded before, and nothing twice
DecodesOnceAtEnd ==
    /\ (~cres.decoded /\ cres'.decoded)
          => /\ pc.at = "parse"
             /\ pc' = Idle
             /\ sock = "shut_wr"
             /\ buf' = buf
             /\ cres' = Finished(parse_qubesd_response(buf), EmptyStr, TRUE)
    /\ cres.decoded => (cres' = cres \/ ~cres'.decoded)
    /\ pc.at \in {"send", "payload", "shutdown", "read", "parse"}
          => ~cres.decoded

\* C18: in a local call the connection is established before any byte is
\* written, all request fields and the payload are written before the write
\* side is half-closed, no response byte is read before the half-close, and
\* the response is read to its end before it is decoded; decoding happens
\* at most once per call, on the complete response.
LocalCallOrdered ==
    [][conn = "socket"
          => /\ WritesWhileConnected
             /\ HalfClosesAfterRequest
             /\ ReadsAfterHalfClose
             /\ DecodesOnceAtEnd]_vars

\* C18: a local call with a payload ran all its steps and returned the
\* decoded response
LocalCallCompleted ==
    /\ conn = "socket"
    /\ pc = Idle
    /\ cres.decoded
    /\ cres.exc = NoExc
    /\ call.payload # None
    /\ wire = Framed(Fields(call), 4) \o call.payload[1]
    /\ buf # EmptyStr

\* no wrapper instance is stored under two keys
OneKeyEach ==
    \A i, j \in 1..Len(vm_objects) :
        vm_objects[i][2].id = vm_objects[j][2].id => i = j

\* C19: when every listing record carries `class`, then after any sequence
\* of completed operations of the collection, whenever it is Cached: every
\* key of the instance table is a key of the snapshot, the class of the
\* wrapper stored under a key is the snapshot's `class` for that key, and no
\* wrapper instance is stored under two keys.
TableFollowsSnapshot ==
    vm_list.cached => (TableAgrees /\ OneKeyEach)

\* C19: a forced refresh has dropped a wrapper from the table and kept
\* another one
ReconciledTable ==
    /\ op.name = "refresh_cache"
    /\ op.force
    /\ result.exc = NoExc
    /\ reply.kind = "return"
    /\ vm_list.cached
    /\ Len(vm_objects) = 1
    /\ next_id = 2

\* clear_cache drops the snapshot, makes no call and leaves the table alone
ClearCacheFrame ==
    IsOp("clear_cache")
        => /\ ~vm_list'.cached
           /\ reply'.kind = "none"
           /\ result'.exc = NoExc
           /\ vm_objects' = vm_objects
           /\ next_id' = next_id

\* the step is a get(n) that follows a clear_cache, a wrapper being stored
\* under n and every wrapper under its own name (no rename is pending), and
\* its list call returns a listing that parses and lists n with the class
\* of that wrapper
GetAfterClear(n) ==
    /\ op.name = "clear_cache"
    /\ IsOp("getitem")
    /\ op'.item = n
    /\ DictHas(vm_objects, n)
    /\ \A i \in 1..Len(vm_objects) : vm_objects[i][2].name = vm_objects[i][1]
    /\ ListedAndParsed
    /\ HasClass(SomeList(ParseVMList(reply'.data).new_vm_list), n)
    /\ ClassIn(SomeList(ParseVMList(reply'.data).new_vm_list), n)
          = DictGet(vm_objects, n).class

\* C20: clear_cache only drops the snapshot: it makes no list call and
\* leaves the instance table unchanged, so that the get(name) that follows
\* it, and the refresh this get triggers, return the instance stored under
\* the name before, whenever the name is still listed with the same class.
\* The code does not keep the second half: when the listing holds a record
\* without `class` (C7) the refresh raises KeyError and get returns nothing.
ClearCacheKeepsInstances ==
    [][/\ ClearCacheFrame
       /\ \A n \in Names :
             GetAfterClear(n)
                 => /\ result'.exc = NoExc
                    /\ result'.val = DictGet(vm_objects, n).id]_vars

====
